---- MODULE Spec2Model ----
(***************************************************************************)
(* Cloud Master Manager: the provider-facing operations of                 *)
(* cloud_master_manager/aws.py and the commands of cli.py that drive them. *)
(*                                                                         *)
(* Four specifications share this module:                                  *)
(*   SpecFn     - the read and lifecycle operations, each applied to a     *)
(*                provider response drawn from a bounded set;              *)
(*   SpecInv    - the `resources list` command, one step per resource kind;*)
(*   SpecStack  - ensure_stack, one step per provider call, against a      *)
(*                CloudFormation provider whose calls may fail;            *)
(*   SpecDeploy - the `deploy template` command around ensure_stack.       *)
(*                                                                         *)
(* Python values: a dict is a function whose DOMAIN is its key set, a list *)
(* or tuple is a sequence, None is the record NoneVal, an optional         *)
(* argument is NoneVal or Some(v).  A call either returns or raises:       *)
(* Ok(v) or Raise(e).                                                      *)
(***************************************************************************)
EXTENDS Integers, Sequences, FiniteSets, TLC

VARIABLES
    call,           \* SpecFn: the operation applied last, its input and outcome
    sent,           \* SpecFn: the provider requests that operation issued
    lpc,            \* SpecInv: position inside list_resources
    fetched,        \* SpecInv: the kinds fetched so far and the provider's answers, in order
    out,            \* SpecInv: what list_resources printed, in order
    any_resources,  \* SpecInv: local of list_resources
    stacks,         \* SpecStack: the provider's stacks, by name
    nextId,         \* SpecStack: the provider's next fresh stack identifier
    cmd,            \* SpecStack: arguments of the running/last deploy_template
    pc,             \* SpecStack: position inside deploy_template/ensure_stack
    action,         \* SpecStack: local of ensure_stack
    resp,           \* SpecStack: local of ensure_stack (create/update answer)
    calls,          \* SpecStack: provider calls of this invocation and their answers, in order
    result,         \* SpecStack: outcome of this invocation
    printed,        \* SpecStack: what deploy_template printed for this invocation
    repeat,         \* SpecStack: whether this invocation repeats the one before, and that one's identifier
    faulted         \* SpecStack: a provider call of this invocation was made to fail by injection

fnVars    == <<call, sent>>
invVars   == <<lpc, fetched, out, any_resources>>
stackVars == <<stacks, nextId, cmd, pc, action, resp, calls, result, printed, repeat, faulted>>
vars      == <<call, sent, lpc, fetched, out, any_resources,
               stacks, nextId, cmd, pc, action, resp, calls, result, printed, repeat, faulted>>

----------------------------------------------------------------------------
(* Python values *)

NoneVal == [some |-> FALSE]
Some(v) == [some |-> TRUE, v |-> v]

EmptyDict == [k \in {} |-> 0]

\* dict.get(key, default)
Get(d, k, default) == IF k \in DOMAIN d THEN d[k] ELSE default

Ok(v)    == [ok |-> TRUE, val |-> v]
Raise(e) == [ok |-> FALSE, err |-> e]

\* Exception classes of botocore.exceptions and of the interpreter.
\* WaiterError derives from BotoCoreError; ClientError does not.
Exc(cls, msg) == [cls |-> cls, msg |-> msg]

IsClientError(e)   == e.cls = "ClientError"
IsBotoCoreError(e) == e.cls \in {"BotoCoreError", "WaiterError"}

\* seq[:n] of Python, for any integer n
Slice(seq, n) ==
    LET len == Len(seq)
        stop == IF n >= 0 THEN (IF n < len THEN n ELSE len)
                ELSE (IF len + n > 0 THEN len + n ELSE 0)
    IN  SubSeq(seq, 1, stop)

\* a pending call of SpecFn, completed with its outcome
Done(pending, outcome) == [done |-> TRUE, result |-> outcome] @@ pending

\* Sequences over S of length at most n
SeqsUpTo(S, n) == UNION {[1..k -> S] : k \in 0..n}

\* `needle in haystack` on texts given as sequences of tokens
Contains(haystack, needle) ==
    \E i \in 0..(Len(haystack) - Len(needle)) :
        SubSeq(haystack, i + 1, i + Len(needle)) = needle

----------------------------------------------------------------------------
(* Bounds *)

MaxGroups       == 3   \* usage groups in one cost-explorer answer
MaxReservations == 2   \* reservations in one describe_instances answer
MaxBuckets      == 2   \* buckets in one list_buckets answer
MaxDbs          == 2   \* database instances in one describe_db_instances answer
MaxPages        == 2   \* pages of one list_functions pagination
MaxCount        == 2   \* `count` of allocate_ec2_instance
MaxIdChars      == 3   \* characters of an --instance-ids value
MaxParams       == 2   \* --param options of one deploy_template command

----------------------------------------------------------------------------
(* Provider failures *)

AccessDenied == Exc("ClientError", <<"User", "is", "not", "authorized">>)
ConnectError == Exc("BotoCoreError", <<"Could", "not", "connect", "to", "the", "endpoint", "URL">>)
IndexError   == Exc("IndexError", <<"list", "index", "out", "of", "range">>)

ProviderFailures == {AccessDenied, ConnectError}

----------------------------------------------------------------------------
(* Billing reader: get_top_usage *)

\* float(s) on the amounts the provider sends, in tenths
float(s) ==
    CASE s = "1.0"  -> 10
      [] s = "5.0"  -> 50
      [] s = "5.00" -> 50
      [] s = "12.0" -> 120
      [] s = "0"    -> 0

UsageQuantity(g) == Get(Get(g, "Metrics", EmptyDict), "UsageQuantity", EmptyDict)

\* the tuple (service, amount, unit) built from one group
UsageRow(g) ==
    LET uq == UsageQuantity(g)
    IN  << Get(g, "Keys", <<"">>)[1],
           IF "Amount" \in DOMAIN uq THEN float(uq["Amount"]) ELSE 0,
           Get(uq, "Unit", "") >>

\* rows.sort(key=lambda x: x[1], reverse=True): stable, descending by amount.
\* InsertDesc puts r behind every row whose amount is at least r's.
InsertDesc(sorted, r) ==
    LET k == Cardinality({i \in 1..Len(sorted) : sorted[i][2] >= r[2]})
    IN  SubSeq(sorted, 1, k) \o <<r>> \o SubSeq(sorted, k + 1, Len(sorted))

RECURSIVE SortDesc(_)
SortDesc(rows) ==
    IF rows = <<>> THEN <<>>
    ELSE InsertDesc(SortDesc(SubSeq(rows, 1, Len(rows) - 1)), rows[Len(rows)])

get_top_usage(answer, top_n) ==
    IF ~answer.ok THEN Raise(answer.err)
    ELSE LET periods == Get(answer.val, "ResultsByTime", <<EmptyDict>>)
         IN  IF periods = <<>> THEN Raise(IndexError)
             ELSE LET groups == Get(periods[1], "Groups", <<>>)
                      rows   == [i \in 1..Len(groups) |-> UsageRow(groups[i])]
                  IN  Ok(Slice(SortDesc(rows), top_n))

Group(service, amount, unit) ==
    [Keys |-> <<service>>, Metrics |-> [UsageQuantity |-> [Amount |-> amount, Unit |-> unit]]]

GroupSet ==
    { Group("EC2", "5.0", "Hrs"), Group("S3", "12.0", "GB"), Group("RDS", "1.0", "Hrs"),
      Group("Lambda", "5.00", "N/A"), [Keys |-> <<"Tax">>] }

UsageAnswers ==
    {Raise(e) : e \in ProviderFailures}
    \cup {Ok(EmptyDict), Ok([ResultsByTime |-> <<>>]), Ok([ResultsByTime |-> <<EmptyDict>>])}
    \cup {Ok([ResultsByTime |-> <<[Groups |-> gs]>>]) : gs \in SeqsUpTo(GroupSet, MaxGroups)}

TopNs == (0 - MaxGroups - 1)..(MaxGroups + 1)

GetTopUsageCalls ==
    {[fn |-> "get_top_usage", done |-> FALSE, answer |-> answer, top_n |-> top_n] :
        answer \in UsageAnswers, top_n \in TopNs}

CallGetTopUsage ==
    /\ call.fn = "get_top_usage" /\ ~call.done
    /\ call' = Done(call, get_top_usage(call.answer, call.top_n))
    /\ sent' = <<[op |-> "get_cost_and_usage"]>>
    /\ UNCHANGED <<invVars, stackVars>>

----------------------------------------------------------------------------
(* Resource inventory reader *)

\* d.get(key): the value wrapped in Some, or None
OptGet(d, k) == IF k \in DOMAIN d THEN Some(d[k]) ELSE NoneVal

\* concatenation of a sequence of sequences
RECURSIVE Flatten(_)
Flatten(ss) == IF ss = <<>> THEN <<>> ELSE Head(ss) \o Flatten(Tail(ss))

\* next((t["Value"] for t in tags if t.get("Key") == "Name"), "")
NameTag(tags) ==
    LET hits == {i \in 1..Len(tags) : Get(tags[i], "Key", "") = "Name"}
    IN  IF hits = {} THEN ""
        ELSE tags[CHOOSE i \in hits : \A j \in hits : i <= j]["Value"]

Ec2Record(inst) ==
    [InstanceId   |-> OptGet(inst, "InstanceId"),
     InstanceType |-> OptGet(inst, "InstanceType"),
     State        |-> OptGet(Get(inst, "State", EmptyDict), "Name"),
     Name         |-> NameTag(Get(inst, "Tags", <<>>)),
     AZ           |-> OptGet(Get(inst, "Placement", EmptyDict), "AvailabilityZone"),
     LaunchTime   |-> OptGet(inst, "LaunchTime")]

list_ec2_instances(answer) ==
    IF ~answer.ok THEN Raise(answer.err)
    ELSE LET reservations == Get(answer.val, "Reservations", <<>>)
             perRes == [r \in 1..Len(reservations) |->
                          LET insts == Get(reservations[r], "Instances", <<>>)
                          IN  [i \in 1..Len(insts) |-> Ec2Record(insts[i])]]
         IN  Ok(Flatten(perRes))

\* `x or default` on an optional string
OrElse(opt, default) == IF opt.some /\ opt.v # "" THEN opt.v ELSE default

\* variant: only ClientError is caught around the region lookup
BucketRegionClientOnly(lookupAnswer) ==
    IF lookupAnswer.ok
    THEN Ok(OrElse(Get(lookupAnswer.val, "LocationConstraint", NoneVal), "us-east-1"))
    ELSE IF IsClientError(lookupAnswer.err)
         THEN Ok("unknown")
         ELSE Raise(lookupAnswer.err)

\* s3.get_bucket_location(Bucket=name).get("LocationConstraint") or "us-east-1",
\* inside try/except (ClientError, BotoCoreError)
BucketRegion(lookupAnswer) ==
    IF lookupAnswer.ok
    THEN Ok(OrElse(Get(lookupAnswer.val, "LocationConstraint", NoneVal), "us-east-1"))
    ELSE IF IsClientError(lookupAnswer.err) \/ IsBotoCoreError(lookupAnswer.err)
         THEN Ok("unknown")
         ELSE Raise(lookupAnswer.err)

\* lookup[i] is the provider's answer to the region lookup of the i-th bucket
list_s3_buckets(answer, lookup) ==
    IF ~answer.ok THEN Raise(answer.err)
    ELSE LET buckets == Get(answer.val, "Buckets", <<>>)
             regions == [i \in 1..Len(buckets) |-> BucketRegion(lookup[i])]
             broken  == {i \in 1..Len(buckets) : ~regions[i].ok}
         IN  IF broken # {}
             THEN Raise(regions[CHOOSE i \in broken : \A j \in broken : i <= j].err)
             ELSE Ok([i \in 1..Len(buckets) |->
                        [Name         |-> OptGet(buckets[i], "Name"),
                         CreationDate |-> OptGet(buckets[i], "CreationDate"),
                         Region       |-> regions[i].val]])

\* the provider requests list_s3_buckets issues, in order
S3Requests(answer) ==
    <<[op |-> "list_buckets"]>> \o
    (IF ~answer.ok THEN <<>>
     ELSE LET buckets == Get(answer.val, "Buckets", <<>>)
          IN  [i \in 1..Len(buckets) |->
                 [op |-> "get_bucket_location", Bucket |-> OptGet(buckets[i], "Name")]])

RdsRecord(db) ==
    [DBInstanceIdentifier |-> OptGet(db, "DBInstanceIdentifier"),
     DBInstanceClass      |-> OptGet(db, "DBInstanceClass"),
     Engine               |-> OptGet(db, "Engine"),
     Status               |-> OptGet(db, "DBInstanceStatus"),
     MultiAZ              |-> OptGet(db, "MultiAZ")]

list_rds_instances(answer) ==
    IF ~answer.ok THEN Raise(answer.err)
    ELSE LET dbs == Get(answer.val, "DBInstances", <<>>)
         IN  Ok([i \in 1..Len(dbs) |-> RdsRecord(dbs[i])])

LambdaRecord(fn) ==
    [FunctionName |-> OptGet(fn, "FunctionName"),
     Runtime      |-> OptGet(fn, "Runtime"),
     LastModified |-> OptGet(fn, "LastModified")]

\* answer.val.Pages is the sequence of pages the paginator yields
list_lambda_functions(answer) ==
    IF ~answer.ok THEN Raise(answer.err)
    ELSE LET pages == answer.val.Pages
             perPage == [p \in 1..Len(pages) |->
                           LET fns == Get(pages[p], "Functions", <<>>)
                           IN  [i \in 1..Len(fns) |-> LambdaRecord(fns[i])]]
         IN  Ok(Flatten(perPage))

----------------------------------------------------------------------------
(* Provider answers the inventory reader is applied to *)

Failures == {Raise(e) : e \in ProviderFailures}

InstanceWeb ==
    [InstanceId |-> "i-1", InstanceType |-> "t3.micro", State |-> [Name |-> "running"],
     Tags |-> <<[Key |-> "Name", Value |-> "web"]>>,
     Placement |-> [AvailabilityZone |-> "us-east-1a"], LaunchTime |-> "2024-01-01"]
InstanceGone ==
    [InstanceId |-> "i-2", State |-> [Name |-> "terminated"]]
InstanceDb ==
    [InstanceId |-> "i-3", InstanceType |-> "t3.small", State |-> [Name |-> "stopped"],
     Tags |-> <<[Key |-> "env", Value |-> "prod"], [Key |-> "Name", Value |-> "db"]>>]

ReservationSet ==
    {EmptyDict, [Instances |-> <<InstanceWeb>>], [Instances |-> <<InstanceGone, InstanceDb>>]}

Ec2Answers ==
    Failures \cup {Ok(EmptyDict)}
    \cup {Ok([Reservations |-> rs]) : rs \in SeqsUpTo(ReservationSet, MaxReservations)}

BucketSet ==
    {[Name |-> "logs", CreationDate |-> "2023-05-01"],
     [Name |-> "assets", CreationDate |-> "2024-02-02"],
     [Name |-> "backup", CreationDate |-> "2022-11-11"]}

\* bucket names are unique within one account
BucketLists ==
    {bs \in SeqsUpTo(BucketSet, MaxBuckets) : \A i, j \in 1..Len(bs) : bs[i] = bs[j] => i = j}

S3Answers ==
    Failures \cup {Ok(EmptyDict)} \cup {Ok([Buckets |-> bs]) : bs \in BucketLists}

LookupAnswers ==
    Failures \cup
    {Ok(EmptyDict), Ok([LocationConstraint |-> NoneVal]), Ok([LocationConstraint |-> Some("eu-west-1")])}

BucketCount(answer) == IF answer.ok THEN Len(Get(answer.val, "Buckets", <<>>)) ELSE 0

DbSet ==
    {[DBInstanceIdentifier |-> "orders", DBInstanceClass |-> "db.t3.micro", Engine |-> "postgres",
      DBInstanceStatus |-> "available", MultiAZ |-> FALSE],
     [DBInstanceIdentifier |-> "legacy"]}

RdsAnswers ==
    Failures \cup {Ok(EmptyDict)} \cup {Ok([DBInstances |-> ds]) : ds \in SeqsUpTo(DbSet, MaxDbs)}

PageSet ==
    {EmptyDict, [Functions |-> <<>>],
     [Functions |-> <<[FunctionName |-> "resize", Runtime |-> "python3.12", LastModified |-> "2024-03-03"]>>],
     [Functions |-> <<[FunctionName |-> "notify"], [FunctionName |-> "audit", Runtime |-> "nodejs20.x"]>>]}

LambdaAnswers == Failures \cup {Ok([Pages |-> ps]) : ps \in SeqsUpTo(PageSet, MaxPages)}

ListCalls ==
    {[fn |-> "list_ec2_instances", done |-> FALSE, answer |-> answer] : answer \in Ec2Answers}
    \cup {[fn |-> "list_rds_instances", done |-> FALSE, answer |-> answer] : answer \in RdsAnswers}
    \cup {[fn |-> "list_lambda_functions", done |-> FALSE, answer |-> answer] :
             answer \in LambdaAnswers}

ListS3Calls ==
    UNION {{[fn |-> "list_s3_buckets", done |-> FALSE, answer |-> answer, lookup |-> lookup] :
              lookup \in [1..BucketCount(answer) -> LookupAnswers]} : answer \in S3Answers}

CallListEc2 ==
    /\ call.fn = "list_ec2_instances" /\ ~call.done
    /\ call' = Done(call, list_ec2_instances(call.answer))
    /\ sent' = <<[op |-> "describe_instances"]>>
    /\ UNCHANGED <<invVars, stackVars>>

CallListS3 ==
    /\ call.fn = "list_s3_buckets" /\ ~call.done
    /\ call' = Done(call, list_s3_buckets(call.answer, call.lookup))
    /\ sent' = S3Requests(call.answer)
    /\ UNCHANGED <<invVars, stackVars>>

CallListRds ==
    /\ call.fn = "list_rds_instances" /\ ~call.done
    /\ call' = Done(call, list_rds_instances(call.answer))
    /\ sent' = <<[op |-> "describe_db_instances"]>>
    /\ UNCHANGED <<invVars, stackVars>>

CallListLambda ==
    /\ call.fn = "list_lambda_functions" /\ ~call.done
    /\ call' = Done(call, list_lambda_functions(call.answer))
    /\ sent' = <<[op |-> "list_functions"]>>
    /\ UNCHANGED <<invVars, stackVars>>

----------------------------------------------------------------------------
(* Resource lifecycle controller *)

\* truth value of an optional string and of an optional list
TruthyStr(opt)  == opt.some /\ opt.v # ""
TruthyList(opt) == opt.some /\ Len(opt.v) > 0

\* variant: optional arguments are tested with `is not None`
RunInstancesParamsNotNone(ami_id, instance_type, key_name, security_group_ids, subnet_id, count, name_tag) ==
    [ImageId |-> ami_id, InstanceType |-> instance_type, MinCount |-> count, MaxCount |-> count]
    @@ (IF key_name.some THEN [KeyName |-> key_name.v] ELSE EmptyDict)
    @@ (IF security_group_ids.some
        THEN [SecurityGroupIds |-> security_group_ids.v] ELSE EmptyDict)
    @@ (IF subnet_id.some THEN [SubnetId |-> subnet_id.v] ELSE EmptyDict)
    @@ (IF name_tag.some
        THEN [TagSpecifications |->
                <<[ResourceType |-> "instance",
                   Tags |-> <<[Key |-> "Name", Value |-> name_tag.v]>>]>>]
        ELSE EmptyDict)

\* the keyword arguments of ec2.run_instances(**params)
RunInstancesParams(ami_id, instance_type, key_name, security_group_ids, subnet_id, count, name_tag) ==
    [ImageId |-> ami_id, InstanceType |-> instance_type, MinCount |-> count, MaxCount |-> count]
    @@ (IF TruthyStr(key_name) THEN [KeyName |-> key_name.v] ELSE EmptyDict)
    @@ (IF TruthyList(security_group_ids)
        THEN [SecurityGroupIds |-> security_group_ids.v] ELSE EmptyDict)
    @@ (IF TruthyStr(subnet_id) THEN [SubnetId |-> subnet_id.v] ELSE EmptyDict)
    @@ (IF TruthyStr(name_tag)
        THEN [TagSpecifications |->
                <<[ResourceType |-> "instance",
                   Tags |-> <<[Key |-> "Name", Value |-> name_tag.v]>>]>>]
        ELSE EmptyDict)

allocate_ec2_instance(answer) ==
    IF ~answer.ok THEN Raise(answer.err)
    ELSE LET insts == Get(answer.val, "Instances", <<>>)
         IN  Ok([i \in 1..Len(insts) |-> insts[i]["InstanceId"]])

NewInstanceIds == <<"i-101", "i-102", "i-103", "i-104">>

RunAnswers(count) ==
    Failures \cup
    {Ok([Instances |-> [i \in 1..count |-> [InstanceId |-> NewInstanceIds[i]]]])}

OptStrings(v) == {NoneVal, Some(""), Some(v)}
OptLists(v)   == {NoneVal, Some(<<>>), Some(<<v>>)}

AllocateCalls ==
    UNION {{[fn |-> "allocate_ec2_instance", done |-> FALSE,
             ami_id |-> "ami-1", instance_type |-> "t3.micro",
             key_name |-> key_name, security_group_ids |-> security_group_ids,
             subnet_id |-> subnet_id, name_tag |-> name_tag, count |-> count,
             answer |-> answer] :
              key_name \in OptStrings("ops-key"), security_group_ids \in OptLists("sg-1"),
              subnet_id \in OptStrings("subnet-1"), name_tag \in OptStrings("web"),
              answer \in RunAnswers(count)} : count \in 1..MaxCount}

CallAllocateEc2 ==
    /\ call.fn = "allocate_ec2_instance" /\ ~call.done
    /\ call' = Done(call, allocate_ec2_instance(call.answer))
    /\ sent' = <<[op |-> "run_instances",
                  params |-> RunInstancesParams(call.ami_id, call.instance_type, call.key_name,
                                 call.security_group_ids, call.subnet_id, call.count,
                                 call.name_tag)]>>
    /\ UNCHANGED <<invVars, stackVars>>

\* the request deallocate_ec2_instances issues: no check of instance_ids precedes it
DeallocateRequest(instance_ids, terminate) ==
    <<[op |-> IF terminate THEN "terminate_instances" ELSE "stop_instances",
       InstanceIds |-> instance_ids]>>

deallocate_ec2_instances(instance_ids, terminate, answer) ==
    IF ~answer.ok THEN Raise(answer.err)
    ELSE LET acted == Get(answer.val,
                          IF terminate THEN "TerminatingInstances" ELSE "StoppingInstances",
                          <<>>)
         IN  Ok([i \in 1..Len(acted) |-> OptGet(acted[i], "InstanceId")])

\* the provider confirms the instances of the request, or fails
DeallocateAnswers(instance_ids) ==
    LET confirmed == [i \in 1..Len(instance_ids) |-> [InstanceId |-> instance_ids[i]]]
    IN  Failures \cup
        {Ok([TerminatingInstances |-> confirmed, StoppingInstances |-> confirmed])}

\* texts of the command line are sequences of characters
IdChars == {"a", "b", ",", " "}

\* s.split(","): the pieces between commas, empty pieces included
RECURSIVE SplitComma(_)
SplitComma(s) ==
    LET commas == {i \in 1..Len(s) : s[i] = ","}
    IN  IF commas = {} THEN <<s>>
        ELSE LET c == CHOOSE i \in commas : \A j \in commas : i <= j
             IN  <<SubSeq(s, 1, c - 1)>> \o SplitComma(SubSeq(s, c + 1, Len(s)))

\* s.strip()
Strip(s) ==
    LET solid == {i \in 1..Len(s) : s[i] # " "}
    IN  IF solid = {} THEN <<>>
        ELSE SubSeq(s, CHOOSE i \in solid : \A j \in solid : i <= j,
                       CHOOSE i \in solid : \A j \in solid : i >= j)

\* [s.strip() for s in instance_ids.split(",") if s.strip()]
ParseInstanceIds(text) ==
    LET pieces == SplitComma(text)
    IN  SelectSeq([i \in 1..Len(pieces) |-> Strip(pieces[i])], LAMBDA p : p # <<>>)

\* the deallocate ec2 command: what it prints, or the exception that leaves it
deallocate_ec2(text, stop, answer) ==
    LET acted == deallocate_ec2_instances(ParseInstanceIds(text), ~stop, answer)
    IN  IF acted.ok
        THEN Ok([print |-> "info", action |-> IF stop THEN "stopped" ELSE "terminated",
                 ids |-> acted.val])
        ELSE IF IsClientError(acted.err) \/ IsBotoCoreError(acted.err)
             THEN Ok([print |-> "error", message |-> acted.err.msg])
             ELSE Raise(acted.err)

DirectIdLists == SeqsUpTo({<<"a">>, <<"b">>}, 2)

DeallocateCalls ==
    UNION {{[fn |-> "deallocate_ec2_instances", done |-> FALSE, instance_ids |-> instance_ids,
             terminate |-> terminate, answer |-> answer] :
              terminate \in BOOLEAN, answer \in DeallocateAnswers(instance_ids)} :
           instance_ids \in DirectIdLists}
    \cup
    UNION {{[fn |-> "deallocate_ec2", done |-> FALSE, text |-> text, stop |-> stop,
             answer |-> answer] :
              stop \in BOOLEAN, answer \in DeallocateAnswers(ParseInstanceIds(text))} :
           text \in SeqsUpTo(IdChars, MaxIdChars)}

CallDeallocateEc2Instances ==
    /\ call.fn = "deallocate_ec2_instances" /\ ~call.done
    /\ call' = Done(call, deallocate_ec2_instances(call.instance_ids, call.terminate,
                                                    call.answer))
    /\ sent' = DeallocateRequest(call.instance_ids, call.terminate)
    /\ UNCHANGED <<invVars, stackVars>>

CallDeallocateEc2 ==
    /\ call.fn = "deallocate_ec2" /\ ~call.done
    /\ call' = Done(call, deallocate_ec2(call.text, call.stop, call.answer))
    /\ sent' = DeallocateRequest(ParseInstanceIds(call.text), ~call.stop)
    /\ UNCHANGED <<invVars, stackVars>>

----------------------------------------------------------------------------
(* SpecFn: each operation applied to bounded inputs *)

InitInv ==
    /\ lpc = "idle"
    /\ fetched = <<>>
    /\ out = <<>>
    /\ any_resources = FALSE

InitFn ==
    /\ call = [fn |-> "none", done |-> TRUE]
    /\ sent = <<>>

\* SpecFn starts with one call pending, its inputs drawn from the bounded sets
InitFnCalls ==
    /\ call \in GetTopUsageCalls \cup ListCalls \cup ListS3Calls \cup AllocateCalls
                 \cup DeallocateCalls
    /\ sent = <<>>

NextFn ==
    \/ CallGetTopUsage
    \/ CallListEc2
    \/ CallListS3
    \/ CallListRds
    \/ CallListLambda
    \/ CallAllocateEc2
    \/ CallDeallocateEc2Instances
    \/ CallDeallocateEc2

----------------------------------------------------------------------------
(* The `resources list` command: list_resources *)

\* variant: only provider-reported errors are caught
IsExceptionClientOnly(e) == e.cls = "ClientError"

\* `except Exception` catches every exception class modelled here
IsException(e) == e.cls \in {"ClientError", "BotoCoreError", "WaiterError", "IndexError"}

ActiveStates == {"pending", "running", "stopping", "stopped"}

Ec2Rows(instances) ==
    LET active == SelectSeq(instances, LAMBDA i : i.State.some /\ i.State.v \in ActiveStates)
    IN  [k \in 1..Len(active) |->
           <<active[k].InstanceId, active[k].Name, active[k].InstanceType,
             active[k].State, active[k].AZ, active[k].LaunchTime>>]

S3Rows(buckets) ==
    [k \in 1..Len(buckets) |-> <<buckets[k].Name, buckets[k].Region, buckets[k].CreationDate>>]

RdsRows(dbs) ==
    [k \in 1..Len(dbs) |->
       <<dbs[k].DBInstanceIdentifier, dbs[k].Engine, dbs[k].DBInstanceClass,
         dbs[k].Status, dbs[k].MultiAZ>>]

LambdaRows(fns) ==
    [k \in 1..Len(fns) |-> <<fns[k].FunctionName, fns[k].Runtime, fns[k].LastModified>>]

\* the rows list_resources derives from what the fetcher of a kind returned
KindRows(kind, records) ==
    CASE kind = "EC2"    -> Ec2Rows(records)
      [] kind = "S3"     -> S3Rows(records)
      [] kind = "RDS"    -> RdsRows(records)
      [] kind = "Lambda" -> LambdaRows(records)

KindTitle(kind) ==
    CASE kind = "EC2"    -> "EC2 Instances"
      [] kind = "S3"     -> "S3 Buckets"
      [] kind = "RDS"    -> "RDS Instances"
      [] kind = "Lambda" -> "Lambda Functions"

Kinds == <<"EC2", "S3", "RDS", "Lambda">>

\* the fetcher of a kind applied to the provider's answer
Fetch(kind, answer) ==
    CASE kind = "EC2"    -> list_ec2_instances(answer.main)
      [] kind = "S3"     -> list_s3_buckets(answer.main, answer.lookup)
      [] kind = "RDS"    -> list_rds_instances(answer.main)
      [] kind = "Lambda" -> list_lambda_functions(answer.main)

\* one try/except block of list_resources: what it prints and whether the
\* command goes on (`go`) or the exception leaves the command
TryKind(kind, answer) ==
    LET got == Fetch(kind, answer)
    IN  IF got.ok
        THEN LET rows == KindRows(kind, got.val)
             IN  [go |-> TRUE, any |-> rows # <<>>,
                  printed |-> IF rows # <<>>
                              THEN <<[ev |-> "table", title |-> KindTitle(kind), rows |-> rows]>>
                              ELSE <<>>]
        ELSE IF IsException(got.err)
             THEN [go |-> TRUE, any |-> FALSE,
                   printed |-> <<[ev |-> "warn", kind |-> kind, msg |-> got.err.msg]>>]
             ELSE [go |-> FALSE, any |-> FALSE, printed |-> <<>>]

Answer(main) == [main |-> main, lookup |-> <<>>]

InvAnswers(kind) ==
    CASE kind = "EC2" ->
           {Answer(a) : a \in Failures \cup
               {Ok(EmptyDict),
                Ok([Reservations |-> <<[Instances |-> <<InstanceGone>>]>>]),
                Ok([Reservations |-> <<[Instances |-> <<InstanceWeb>>],
                                       [Instances |-> <<InstanceGone, InstanceDb>>]>>])}}
      [] kind = "S3" ->
           {Answer(a) : a \in Failures \cup {Ok(EmptyDict)}}
           \cup {[main |-> Ok([Buckets |-> <<[Name |-> "logs", CreationDate |-> "2023-05-01"],
                                             [Name |-> "assets"]>>]),
                  lookup |-> l] :
                    l \in [1..2 -> {Raise(AccessDenied), Ok([LocationConstraint |-> Some("eu-west-1")])}]}
      [] kind = "RDS" ->
           {Answer(a) : a \in Failures \cup
               {Ok(EmptyDict), Ok([DBInstances |-> <<[DBInstanceIdentifier |-> "orders", Engine |-> "postgres"]>>])}}
      [] kind = "Lambda" ->
           {Answer(a) : a \in Failures \cup
               {Ok([Pages |-> <<>>]),
                Ok([Pages |-> <<[Functions |-> <<[FunctionName |-> "resize"]>>], EmptyDict>>])}}

\* entry of the command: print_header, any_resources = False
StartListResources ==
    /\ lpc \in {"idle", "done", "raised"}
    /\ lpc' = "EC2"
    /\ fetched' = <<>>
    /\ out' = <<[ev |-> "header"]>>
    /\ any_resources' = FALSE
    /\ UNCHANGED <<fnVars, stackVars>>

NextKind(kind) ==
    CASE kind = "EC2"    -> "S3"
      [] kind = "S3"     -> "RDS"
      [] kind = "RDS"    -> "Lambda"
      [] kind = "Lambda" -> "finish"

\* the try/except block of one kind
StepKind(kind) ==
    /\ lpc = kind
    /\ \E answer \in InvAnswers(kind) :
         LET t == TryKind(kind, answer)
         IN  /\ fetched' = Append(fetched, [kind |-> kind, answer |-> answer])
             /\ out' = out \o t.printed
             /\ any_resources' = (any_resources \/ t.any)
             /\ lpc' = IF t.go THEN NextKind(kind) ELSE "raised"
    /\ UNCHANGED <<fnVars, stackVars>>

StepEc2    == StepKind("EC2")
StepS3     == StepKind("S3")
StepRds    == StepKind("RDS")
StepLambda == StepKind("Lambda")

\* if not any_resources: print_info("No resource is allocated")
FinishListResources ==
    /\ lpc = "finish"
    /\ out' = IF any_resources THEN out
              ELSE out \o <<[ev |-> "info", message |-> "No resource is allocated"]>>
    /\ lpc' = "done"
    /\ UNCHANGED <<fetched, any_resources, fnVars, stackVars>>

NextInv ==
    \/ StartListResources
    \/ StepEc2
    \/ StepS3
    \/ StepRds
    \/ StepLambda
    \/ FinishListResources

----------------------------------------------------------------------------
(* The CloudFormation provider, as ensure_stack uses it *)

StackNames   == {"demo", "web"}
Templates    == {"tA", "tB"}
Capabilities == {<<>>, <<"CAPABILITY_IAM">>}

\* status "COMPLETE" stands for CREATE_COMPLETE, UPDATE_COMPLETE and
\* UPDATE_ROLLBACK_COMPLETE, which the provider treats alike on every call made here
NoStack == [exists |-> FALSE, id |-> 0, template |-> "", parameters |-> {},
            status |-> "", pending |-> <<>>]

\* str(e) of a ClientError: "An error occurred (<code>) when calling the
\* <operation> operation: <message>"
ClientError(code, operation, message) ==
    Exc("ClientError",
        <<"An", "error", "occurred", "(", code, ")", "when", "calling", "the",
          operation, "operation", ":">> \o message)

WaiterError(name) ==
    Exc("WaiterError", <<"Waiter", name, "failed", ":", "Waiter", "encountered",
                         "a", "terminal", "failure", "state">>)

NoFault == NoneVal

\* failures a provider call can meet whatever the state of the stack
CallFaults(operation) ==
    {Some(ClientError("AccessDenied", operation, <<"User", "is", "not", "authorized">>)),
     Some(ConnectError)}

\* a failure of the probe that is not about the stack, yet reads "does not exist"
RoleMissing ==
    ClientError("ValidationError", "DescribeStacks",
                <<"Role", "cfn-exec", "does", "not", "exist">>)

DescribeFaults == CallFaults("DescribeStacks") \cup {Some(RoleMissing)}

\* cf.describe_stacks(StackName=name)
CfDescribeStacks(st, name, fault) ==
    IF fault.some THEN Raise(fault.v)
    ELSE IF ~st[name].exists
         THEN Raise(ClientError("ValidationError", "DescribeStacks",
                                <<"Stack", "with", "id", name, "does", "not", "exist">>))
         ELSE Ok([Stacks |-> <<[StackId |-> st[name].id, StackName |-> name,
                                StackStatus |-> st[name].status]>>])

\* cf.create_stack(...): the answer, and the provider's stacks afterwards
CfCreateStack(st, fresh, name, template, parameters, fault) ==
    IF fault.some THEN [answer |-> Raise(fault.v), stacks |-> st, fresh |-> fresh]
    ELSE IF st[name].exists
         THEN [answer |-> Raise(ClientError("AlreadyExistsException", "CreateStack",
                                <<"Stack", "[", name, "]", "already", "exists">>)),
               stacks |-> st, fresh |-> fresh]
         ELSE [answer |-> Ok([StackId |-> fresh]),
               stacks |-> [st EXCEPT ![name] =
                              [exists |-> TRUE, id |-> fresh, template |-> template,
                               parameters |-> parameters, status |-> "CREATE_IN_PROGRESS",
                               pending |-> <<>>]],
               fresh |-> fresh + 1]

\* cf.update_stack(...)
CfUpdateStack(st, name, template, parameters, fault) ==
    IF fault.some THEN [answer |-> Raise(fault.v), stacks |-> st]
    ELSE IF ~st[name].exists
         THEN [answer |-> Raise(ClientError("ValidationError", "UpdateStack",
                                <<"Stack", "[", name, "]", "does", "not", "exist">>)),
               stacks |-> st]
    ELSE IF st[name].status = "ROLLBACK_COMPLETE"
         THEN [answer |-> Raise(ClientError("ValidationError", "UpdateStack",
                                <<"Stack", ":", name, "is", "in", "ROLLBACK_COMPLETE",
                                  "state", "and", "can", "not", "be", "updated", ".">>)),
               stacks |-> st]
    ELSE IF st[name].template = template /\ st[name].parameters = parameters
         THEN [answer |-> Raise(ClientError("ValidationError", "UpdateStack",
                                <<"No", "updates", "are", "to", "be", "performed", ".">>)),
               stacks |-> st]
    ELSE [answer |-> Ok([StackId |-> st[name].id]),
          stacks |-> [st EXCEPT ![name].status = "UPDATE_IN_PROGRESS",
                                ![name].pending = <<[template |-> template,
                                                     parameters |-> parameters]>>]]

\* cf.get_waiter("stack_create_complete").wait(StackName=name)
CfWaitCreate(st, name, fault) ==
    IF fault.some
    THEN [answer |-> Raise(fault.v),
          stacks |-> IF st[name].status = "CREATE_IN_PROGRESS"
                     THEN [st EXCEPT ![name].status = "ROLLBACK_COMPLETE"] ELSE st]
    ELSE [answer |-> Ok(EmptyDict),
          stacks |-> IF st[name].status = "CREATE_IN_PROGRESS"
                     THEN [st EXCEPT ![name].status = "COMPLETE"] ELSE st]

\* cf.get_waiter("stack_update_complete").wait(StackName=name)
CfWaitUpdate(st, name, fault) ==
    IF st[name].status # "UPDATE_IN_PROGRESS"
    THEN [answer |-> IF fault.some THEN Raise(fault.v) ELSE Ok(EmptyDict), stacks |-> st]
    ELSE IF fault.some
    THEN [answer |-> Raise(fault.v),
          stacks |-> [st EXCEPT ![name].status = "COMPLETE",
                                ![name].pending = <<>>]]
    ELSE [answer |-> Ok(EmptyDict),
          stacks |-> [st EXCEPT ![name].status = "COMPLETE",
                                ![name].template = st[name].pending[1].template,
                                ![name].parameters = st[name].pending[1].parameters,
                                ![name].pending = <<>>]]

WaitFaults(name) == {Some(WaiterError(name))}

----------------------------------------------------------------------------
(* The `deploy template` command and ensure_stack *)

\* --param values, as sequences of characters
ParamStrings == { <<"E", "=", "p">>, <<"E", "=", "q", "=", "r">>, <<"E">> }

HasEquals(p) == \E i \in 1..Len(p) : p[i] = "="

\* p.split("=", 1) of a text that contains "="
SplitFirstEquals(p) ==
    LET c == CHOOSE i \in 1..Len(p) : p[i] = "=" /\ \A j \in 1..(i - 1) : p[j] # "="
    IN  [k |-> SubSeq(p, 1, c - 1), v |-> SubSeq(p, c + 1, Len(p))]

ClickException(p) == Exc("ClickException", <<"Invalid", "--param">> \o p \o <<"expected", "KEY=VALUE">>)

\* variant: a text without "=" is taken as a key with an empty value
ParseParamLenient(before, p) ==
    IF ~before.ok THEN before
    ELSE IF ~HasEquals(p) THEN Ok((p :> <<>>) @@ before.val)
    ELSE LET kv == SplitFirstEquals(p)
         IN  Ok((kv.k :> kv.v) @@ before.val)

\* one round of the loop of deploy_template over params: `before` is the
\* outcome of the rounds so far, p the text of this round
ParseParam(before, p) ==
    IF ~before.ok THEN before
    ELSE IF ~HasEquals(p) THEN Raise(ClickException(p))
    ELSE LET kv == SplitFirstEquals(p)
         IN  Ok((kv.k :> kv.v) @@ before.val)

\* the loop of deploy_template over params: the dict built, or the
\* ClickException of the first text without "="
RECURSIVE ParseParams(_)
ParseParams(params) ==
    IF params = <<>> THEN Ok(EmptyDict)
    ELSE ParseParam(ParseParams(SubSeq(params, 1, Len(params) - 1)), params[Len(params)])

\* param_list of ensure_stack; the provider reads it as a mapping
ParamList(parameters) ==
    {[ParameterKey |-> k, ParameterValue |-> parameters[k]] : k \in DOMAIN parameters}

\* what deploy_template prints for an outcome of ensure_stack; an exception
\* other than ClientError/BotoCoreError leaves the command
DeployReport(res) ==
    IF res.ok THEN <<[print |-> "info", id |-> res.val]>>
    ELSE IF IsClientError(res.err) \/ IsBotoCoreError(res.err)
         THEN <<[print |-> "error", id |-> 0]>>
         ELSE <<>>

NoRepeat == [is |-> FALSE, id |-> 0]

InitStack ==
    /\ stacks = [n \in StackNames |-> NoStack]
    /\ nextId = 1
    /\ cmd = [cli |-> FALSE, stack_name |-> "", template_body |-> "", params |-> <<>>,
              parameters |-> EmptyDict, capabilities |-> <<>>]
    /\ pc = "idle"
    /\ action = ""
    /\ resp = EmptyDict
    /\ calls = <<>>
    /\ result = Raise(Exc("none", <<>>))
    /\ printed = <<>>
    /\ repeat = NoRepeat
    /\ faulted = FALSE

\* ensure_stack ends with outcome res; under deploy_template the command
\* then reports it
Finish(res, cli) ==
    /\ result' = res
    /\ printed' = IF cli THEN DeployReport(res) ELSE <<>>
    /\ pc' = "done"

\* whether the call about to start repeats the completed one before it, and
\* the identifier that one returned
Repeats(args) ==
    IF /\ pc = "done" /\ calls # <<>> /\ result.ok
       /\ cmd.stack_name = args.stack_name
       /\ cmd.template_body = args.template_body
       /\ cmd.parameters = args.parameters
       /\ cmd.capabilities = args.capabilities
    THEN [is |-> TRUE, id |-> result.val]
    ELSE NoRepeat

\* ensure_stack entered with args
Enter(args) ==
    /\ cmd' = args
    /\ pc' = "probe"
    /\ calls' = <<>>
    /\ action' = ""
    /\ resp' = EmptyDict
    /\ faulted' = FALSE
    /\ result' = Raise(Exc("none", <<>>))
    /\ printed' = <<>>
    /\ repeat' = Repeats(args)

ParamDicts == {EmptyDict, <<"E">> :> <<"p">>}

\* ensure_stack called by a caller other than the command line
EnsureStack ==
    /\ pc \in {"idle", "done"}
    /\ \E stack_name \in StackNames, template_body \in Templates,
          parameters \in ParamDicts, capabilities \in Capabilities :
         Enter([cli |-> FALSE, stack_name |-> stack_name, template_body |-> template_body,
                params |-> <<>>, parameters |-> parameters, capabilities |-> capabilities])
    /\ UNCHANGED <<stacks, nextId, fnVars, invVars>>

CliStackNames == {"demo"}
CliTemplates  == {"tA"}

\* deploy_template up to the call of ensure_stack
DeployTemplate ==
    /\ pc \in {"idle", "done"}
    /\ \E stack_name \in CliStackNames, body \in CliTemplates,
          params \in SeqsUpTo(ParamStrings, MaxParams), capabilities \in Capabilities :
         LET parsed == ParseParams(params)
             args   == [cli |-> TRUE, stack_name |-> stack_name, template_body |-> body,
                        params |-> params,
                        parameters |-> IF parsed.ok THEN parsed.val ELSE EmptyDict,
                        capabilities |-> capabilities]
         IN  IF parsed.ok
             THEN Enter(args)
             ELSE /\ cmd' = args
                  /\ calls' = <<>>
                  /\ action' = ""
                  /\ resp' = EmptyDict
                  /\ faulted' = FALSE
                  /\ Finish(parsed, TRUE)
                  /\ repeat' = NoRepeat
    /\ UNCHANGED <<stacks, nextId, fnVars, invVars>>

DoesNotExist == <<"does", "not", "exist">>
NoUpdates    == <<"No", "updates", "are", "to", "be", "performed">>

\* variant: every ClientError of the probe is read as "absent"
ProbeSaysAbsentAny(e) == IsClientError(e)

\* except ClientError as e: if "does not exist" in str(e)
ProbeSaysAbsent(e) == IsClientError(e) /\ Contains(e.msg, DoesNotExist)

\* variant: the message is matched in lower case, which the provider never sends
UpdateSaysNoUpdatesLower(e) ==
    IsClientError(e) /\ Contains(e.msg, <<"no", "updates", "are", "to", "be", "performed">>)

\* variant: every ClientError of the update is read as "no updates"
UpdateSaysNoUpdatesAny(e) == IsClientError(e)

\* except ClientError as e: if "No updates are to be performed" in str(e)
UpdateSaysNoUpdates(e) == IsClientError(e) /\ Contains(e.msg, NoUpdates)

\* try: cf.describe_stacks(...); action = "update"
\* except ClientError as e: "does not exist" in str(e) -> action = "create", else raise
Probe ==
    /\ pc = "probe"
    /\ \E fault \in {NoFault} \cup DescribeFaults :
         LET answer == CfDescribeStacks(stacks, cmd.stack_name, fault)
         IN  /\ calls' = Append(calls, [op |-> "describe_stacks", answer |-> answer])
             /\ faulted' = (faulted \/ fault.some)
             /\ IF answer.ok
                THEN /\ action' = "update"
                     /\ pc' = "update"
                     /\ UNCHANGED <<result, printed>>
                ELSE IF ProbeSaysAbsent(answer.err)
                THEN /\ action' = "create"
                     /\ pc' = "create"
                     /\ UNCHANGED <<result, printed>>
                ELSE /\ Finish(Raise(answer.err), cmd.cli)
                     /\ UNCHANGED action
    /\ UNCHANGED <<stacks, nextId, cmd, resp, repeat, fnVars, invVars>>

\* variant: the identifier is returned as soon as create_stack has answered,
\* without the "create complete" wait
CreateWithoutWait ==
    /\ pc = "create"
    /\ \E fault \in {NoFault} \cup CallFaults("CreateStack") :
         LET r == CfCreateStack(stacks, nextId, cmd.stack_name, cmd.template_body,
                                ParamList(cmd.parameters), fault)
         IN  /\ calls' = Append(calls, [op |-> "create_stack", answer |-> r.answer])
             /\ faulted' = (faulted \/ fault.some)
             /\ stacks' = r.stacks
             /\ nextId' = r.fresh
             /\ IF r.answer.ok
                THEN /\ resp' = r.answer.val
                     /\ Finish(Ok(r.answer.val["StackId"]), cmd.cli)
                ELSE /\ Finish(Raise(r.answer.err), cmd.cli)
                     /\ UNCHANGED resp
    /\ UNCHANGED <<cmd, action, repeat, fnVars, invVars>>

\* resp = cf.create_stack(...)
Create ==
    /\ pc = "create"
    /\ \E fault \in {NoFault} \cup CallFaults("CreateStack") :
         LET r == CfCreateStack(stacks, nextId, cmd.stack_name, cmd.template_body,
                                ParamList(cmd.parameters), fault)
         IN  /\ calls' = Append(calls, [op |-> "create_stack", answer |-> r.answer])
             /\ faulted' = (faulted \/ fault.some)
             /\ stacks' = r.stacks
             /\ nextId' = r.fresh
             /\ IF r.answer.ok
                THEN /\ resp' = r.answer.val
                     /\ pc' = "wait_create"
                     /\ UNCHANGED <<result, printed>>
                ELSE /\ Finish(Raise(r.answer.err), cmd.cli)
                     /\ UNCHANGED resp
    /\ UNCHANGED <<cmd, action, repeat, fnVars, invVars>>

\* cf.get_waiter("stack_create_complete").wait(...); return resp["StackId"]
WaitCreate ==
    /\ pc = "wait_create"
    /\ \E fault \in {NoFault} \cup WaitFaults("StackCreateComplete") :
         LET r == CfWaitCreate(stacks, cmd.stack_name, fault)
         IN  /\ calls' = Append(calls, [op |-> "wait_create", answer |-> r.answer])
             /\ faulted' = (faulted \/ fault.some)
             /\ stacks' = r.stacks
             /\ IF r.answer.ok
                THEN Finish(Ok(resp["StackId"]), cmd.cli)
                ELSE Finish(Raise(r.answer.err), cmd.cli)
    /\ UNCHANGED <<nextId, cmd, action, resp, repeat, fnVars, invVars>>

\* except ClientError as e around update_stack and its wait:
\* "No updates are to be performed" in str(e) -> re-fetch, else raise
UpdateFailed(e) ==
    IF UpdateSaysNoUpdates(e)
    THEN /\ pc' = "refetch"
         /\ UNCHANGED <<result, printed>>
    ELSE Finish(Raise(e), cmd.cli)

\* resp = cf.update_stack(...)
Update ==
    /\ pc = "update"
    /\ \E fault \in {NoFault} \cup CallFaults("UpdateStack") :
         LET r == CfUpdateStack(stacks, cmd.stack_name, cmd.template_body,
                                ParamList(cmd.parameters), fault)
         IN  /\ calls' = Append(calls, [op |-> "update_stack", answer |-> r.answer])
             /\ faulted' = (faulted \/ fault.some)
             /\ stacks' = r.stacks
             /\ IF r.answer.ok
                THEN /\ resp' = r.answer.val
                     /\ pc' = "wait_update"
                     /\ UNCHANGED <<result, printed>>
                ELSE /\ UpdateFailed(r.answer.err)
                     /\ UNCHANGED resp
    /\ UNCHANGED <<nextId, cmd, action, repeat, fnVars, invVars>>

\* cf.get_waiter("stack_update_complete").wait(...); return resp["StackId"]
WaitUpdate ==
    /\ pc = "wait_update"
    /\ \E fault \in {NoFault} \cup WaitFaults("StackUpdateComplete") :
         LET r == CfWaitUpdate(stacks, cmd.stack_name, fault)
         IN  /\ calls' = Append(calls, [op |-> "wait_update", answer |-> r.answer])
             /\ faulted' = (faulted \/ fault.some)
             /\ stacks' = r.stacks
             /\ IF r.answer.ok
                THEN Finish(Ok(resp["StackId"]), cmd.cli)
                ELSE UpdateFailed(r.answer.err)
    /\ UNCHANGED <<nextId, cmd, action, resp, repeat, fnVars, invVars>>

\* desc = cf.describe_stacks(...); return desc["Stacks"][0]["StackId"]
Refetch ==
    /\ pc = "refetch"
    /\ \E fault \in {NoFault} \cup CallFaults("DescribeStacks") :
         LET answer == CfDescribeStacks(stacks, cmd.stack_name, fault)
         IN  /\ calls' = Append(calls, [op |-> "describe_stacks", answer |-> answer])
             /\ faulted' = (faulted \/ fault.some)
             /\ IF answer.ok
                THEN Finish(Ok(answer.val["Stacks"][1]["StackId"]), cmd.cli)
                ELSE Finish(Raise(answer.err), cmd.cli)
    /\ UNCHANGED <<stacks, nextId, cmd, action, resp, repeat, fnVars, invVars>>

NextStack ==
    \/ EnsureStack
    \/ Probe
    \/ Create
    \/ WaitCreate
    \/ Update
    \/ WaitUpdate
    \/ Refetch

NextDeploy ==
    \/ DeployTemplate
    \/ Probe
    \/ Create
    \/ WaitCreate
    \/ Update
    \/ WaitUpdate
    \/ Refetch

----------------------------------------------------------------------------
(* Specifications *)


Init == InitFn /\ InitInv /\ InitStack

\* SpecFn starts with one call of a read or lifecycle operation pending
InitCalls == InitFnCalls /\ InitInv /\ InitStack

SpecFn    == InitCalls /\ [][NextFn]_vars
SpecInv   == Init /\ [][NextInv]_vars
SpecStack == Init /\ [][NextStack]_vars
SpecDeploy == Init /\ [][NextDeploy]_vars

----------------------------------------------------------------------------
(* Properties of ensure_stack and deploy_template *)

\* the provider operations of this invocation, in order
Ops == [i \in 1..Len(calls) |-> calls[i].op]

Issued(op) == \E i \in 1..Len(calls) : calls[i].op = op

\* a failure whose text reads "does not exist" / "No updates are to be performed"
ReadsDoesNotExist(answer) ==
    /\ ~answer.ok
    /\ answer.err.cls = "ClientError"
    /\ \E i \in 1..(Len(answer.err.msg) - 2) :
         /\ answer.err.msg[i] = "does"
         /\ answer.err.msg[i + 1] = "not"
         /\ answer.err.msg[i + 2] = "exist"

ReadsNoUpdates(answer) ==
    /\ ~answer.ok
    /\ answer.err.cls = "ClientError"
    /\ \E i \in 1..(Len(answer.err.msg) - 5) :
         SubSeq(answer.err.msg, i, i + 5) = <<"No", "updates", "are", "to", "be", "performed">>

\* C1: when ensure_stack is called a second time in a row with the same stack
\* name, template, parameters and capabilities, the first call having returned
\* an identifier, then (a) if every provider call of the second answers from
\* the state of the stacks, the second call issues no create_stack, runs
\* describe_stacks, update_stack ("no updates"), describe_stacks and returns
\* the first call's identifier; (b) whatever the provider calls answer, a
\* second call that returns at all returns that same identifier by that path.
IdempotentReconciliation ==
    repeat.is =>
        /\ ~faulted =>
              /\ ~Issued("create_stack")
              /\ pc = "done" => result = Ok(repeat.id)
        /\ (pc = "done" /\ result.ok) =>
              /\ result.val = repeat.id
              /\ action = "update"
              /\ Ops = <<"describe_stacks", "update_stack", "describe_stacks">>
              /\ ReadsNoUpdates(calls[2].answer)

SecondCallReturnsSameId ==
    /\ pc = "done"
    /\ repeat.is
    /\ ~faulted
    /\ result = Ok(repeat.id)
    /\ Ops = <<"describe_stacks", "update_stack", "describe_stacks">>
    /\ stacks[cmd.stack_name].template = cmd.template_body

\* C2: in every invocation of ensure_stack, create_stack is issued only after
\* a probe that failed reading "does not exist" and update_stack only after a
\* probe that succeeded, never both; once the invocation has ended, create_stack
\* was issued if the probe failed that way and update_stack if it succeeded,
\* and after any other probe failure no further call was issued and the
\* probe's own error is the outcome.
ProbeClassification ==
    calls # <<>> =>
        LET probe == calls[1].answer
        IN  /\ calls[1].op = "describe_stacks"
            /\ Issued("create_stack") => (ReadsDoesNotExist(probe) /\ ~Issued("update_stack"))
            /\ Issued("update_stack") => (probe.ok /\ ~Issued("create_stack"))
            /\ pc = "done" =>
                 /\ ReadsDoesNotExist(probe) => Issued("create_stack")
                 /\ probe.ok => Issued("update_stack")
                 /\ (~probe.ok /\ ~ReadsDoesNotExist(probe)) =>
                        (Len(calls) = 1 /\ result = Raise(probe.err))

ProbeAbsentLedToCreate ==
    /\ pc = "done"
    /\ calls # <<>>
    /\ ReadsDoesNotExist(calls[1].answer)
    /\ Issued("create_stack")
    /\ ~Issued("update_stack")
    /\ result.ok

\* the stack's identifier as the probe of this invocation reported it
ProbedId == calls[1].answer.val["Stacks"][1]["StackId"]

\* C3 as stated: once update_stack has failed reading "No updates are to be
\* performed", ensure_stack ends without a failure, having re-fetched the
\* stack, and returns the identifier the stack already had; any other failure
\* of update_stack or of the update wait is the outcome of ensure_stack.
NoOpUpdateNeverFails ==
    (pc = "done" /\ Issued("update_stack")) =>
        LET update == calls[2].answer
        IN  /\ ReadsNoUpdates(update) =>
                 /\ Ops = <<"describe_stacks", "update_stack", "describe_stacks">>
                 /\ result = Ok(ProbedId)
            /\ (~update.ok /\ ~ReadsNoUpdates(update)) => result = Raise(update.err)
            /\ (update.ok /\ ~calls[3].answer.ok) => result = Raise(calls[3].answer.err)

\* C3 amended: once update_stack has failed reading "No updates are to be
\* performed", ensure_stack re-fetches the stack with describe_stacks; if the
\* re-fetch answers, ensure_stack returns the identifier the stack already had,
\* and if the re-fetch fails, that failure is the outcome.  Any other failure
\* of update_stack or of the update wait is the outcome of ensure_stack.
NoOpUpdateAbsorption ==
    /\ (Issued("update_stack") /\ ReadsNoUpdates(calls[2].answer)) =>
          (pc = "refetch" /\ Len(calls) = 2) \/ (pc = "done" /\ Len(calls) = 3)
    /\ (pc = "done" /\ Issued("update_stack")) =>
        LET update == calls[2].answer
        IN  /\ ReadsNoUpdates(update) =>
                 /\ Ops = <<"describe_stacks", "update_stack", "describe_stacks">>
                 /\ calls[3].answer.ok => result = Ok(ProbedId)
                 /\ ~calls[3].answer.ok => result = Raise(calls[3].answer.err)
            /\ (~update.ok /\ ~ReadsNoUpdates(update)) => result = Raise(update.err)
            /\ (update.ok /\ ~calls[3].answer.ok) => result = Raise(calls[3].answer.err)

NoOpUpdateReturnedExistingId ==
    /\ pc = "done"
    /\ Ops = <<"describe_stacks", "update_stack", "describe_stacks">>
    /\ ReadsNoUpdates(calls[2].answer)
    /\ result = Ok(stacks[cmd.stack_name].id)

\* C8: whenever a --param of the deploy template command lacks "=", whatever
\* its place in the list, the command has ended with the invalid-argument
\* error and has made no provider call.
ParamValidationPrecedesProvider ==
    (cmd.cli /\ \E i \in 1..Len(cmd.params) :
                    \A j \in 1..Len(cmd.params[i]) : cmd.params[i][j] # "=") =>
        /\ pc = "done"
        /\ calls = <<>>
        /\ ~result.ok
        /\ result.err.cls = "ClickException"
        /\ printed = <<>>

MalformedSecondParamRejected ==
    /\ cmd.cli
    /\ Len(cmd.params) = 2
    /\ cmd.params[1] = <<"E", "=", "p">>
    /\ cmd.params[2] = <<"E">>
    /\ pc = "done"
    /\ calls = <<>>
    /\ ~result.ok
    /\ stacks[cmd.stack_name].exists

----------------------------------------------------------------------------
(* Properties of list_resources *)

FetchedKinds == [i \in 1..Len(fetched) |-> fetched[i].kind]

\* what the fetcher of the i-th kind returned
Fetched(i) == Fetch(fetched[i].kind, fetched[i].answer)

Warnings(kind) == {i \in 1..Len(out) : out[i].ev = "warn" /\ out[i].kind = kind}
Tables(kind)   == {i \in 1..Len(out) : out[i].ev = "table" /\ out[i].title = KindTitle(kind)}

\* C4: list_resources never ends by raising; the kinds are fetched in the
\* order EC2, S3, RDS, Lambda, each after the ones before it whatever those
\* did; and once the command has ended all four were fetched, every kind whose
\* fetcher failed has exactly one warning of its own carrying that failure and
\* no table, and every kind whose fetcher returned rows has exactly one table
\* holding those rows and no warning.
PartialInventoryIsolation ==
    /\ lpc # "raised"
    /\ \A i \in 1..Len(fetched) : fetched[i].kind = Kinds[i]
    /\ lpc = "done" =>
         /\ FetchedKinds = Kinds
         /\ \A i \in 1..4 :
              LET got == Fetched(i)
              IN  IF got.ok
                  THEN /\ Warnings(Kinds[i]) = {}
                       /\ IF KindRows(Kinds[i], got.val) = <<>>
                          THEN Tables(Kinds[i]) = {}
                          ELSE \E t \in 1..Len(out) :
                                  /\ Tables(Kinds[i]) = {t}
                                  /\ out[t].rows = KindRows(Kinds[i], got.val)
                  ELSE /\ Tables(Kinds[i]) = {}
                       /\ \E w \in 1..Len(out) :
                             /\ Warnings(Kinds[i]) = {w}
                             /\ out[w].msg = got.err.msg
         /\ \A a, b \in 1..4 : \A x, y \in 1..Len(out) :
              (a < b /\ x \in Warnings(Kinds[a]) \cup Tables(Kinds[a])
                     /\ y \in Warnings(Kinds[b]) \cup Tables(Kinds[b])) => x < y

TwoKindsFailedOthersReported ==
    /\ lpc = "done"
    /\ ~Fetched(1).ok
    /\ Fetched(2).ok /\ Tables("S3") # {}
    /\ ~Fetched(3).ok /\ Fetched(3).err.cls = "BotoCoreError"
    /\ Fetched(4).ok /\ Tables("Lambda") # {}
    /\ Warnings("EC2") # {} /\ Warnings("RDS") # {}

----------------------------------------------------------------------------
(* Properties of the readers and of the lifecycle controller *)

Finished(fn) == call.fn = fn /\ call.done

\* the groups of a cost-explorer answer that carries at least one period
AnswerGroups(answer) == Get(answer.val["ResultsByTime"][1], "Groups", <<>>)

HasPeriod(answer) ==
    /\ answer.ok
    /\ "ResultsByTime" \in DOMAIN answer.val
    /\ answer.val["ResultsByTime"] # <<>>

\* C5: get_top_usage returns the provider's groups sorted by amount
\* descending, equal amounts in the provider's order, cut to the first top_n
\* rows: no row when top_n <= 0, every row when top_n exceeds their number.
TopNUsageRanking ==
    (Finished("get_top_usage") /\ HasPeriod(call.answer)) =>
        LET groups == AnswerGroups(call.answer)
            rows   == [i \in 1..Len(groups) |-> UsageRow(groups[i])]
            keep   == IF call.top_n <= 0 THEN 0
                      ELSE IF call.top_n > Len(rows) THEN Len(rows) ELSE call.top_n
        IN  /\ call.result.ok
            /\ Len(call.result.val) = keep
            /\ call.result.val = SubSeq(SortDesc(rows), 1, keep)

\* whether a successful answer reports no resource at all
ReportsNothing(fn, answer) ==
    CASE fn = "list_ec2_instances" ->
           LET rs == Get(answer.val, "Reservations", <<>>)
           IN  \A i \in 1..Len(rs) : Get(rs[i], "Instances", <<>>) = <<>>
      [] fn = "list_s3_buckets" -> Get(answer.val, "Buckets", <<>>) = <<>>
      [] fn = "list_rds_instances" -> Get(answer.val, "DBInstances", <<>>) = <<>>
      [] fn = "list_lambda_functions" ->
           \A i \in 1..Len(answer.val.Pages) : Get(answer.val.Pages[i], "Functions", <<>>) = <<>>
      [] fn = "get_top_usage" ->
           LET ps == Get(answer.val, "ResultsByTime", <<>>)
           IN  \A i \in 1..Len(ps) : Get(ps[i], "Groups", <<>>) = <<>>

ListReaders ==
    {"list_ec2_instances", "list_s3_buckets", "list_rds_instances", "list_lambda_functions",
     "get_top_usage"}

\* C6: every list-returning reader returns the empty sequence when the
\* provider call succeeds and reports no resource, an empty result container
\* included, and fails only when a provider call failed.
EmptyResultInvariant ==
    (call.fn \in ListReaders /\ call.done) =>
        /\ (call.answer.ok /\ ReportsNothing(call.fn, call.answer)) => call.result = Ok(<<>>)
        /\ ~call.result.ok => ~call.answer.ok

\* the identifiers a deallocation was asked for
AskedIds == IF call.fn = "deallocate_ec2" THEN ParseInstanceIds(call.text) ELSE call.instance_ids

\* C7: deallocating with no identifier (an empty list, or an --instance-ids
\* text without a non-blank identifier) fails with InvalidArgument and sends
\* no terminate or stop request.
EmptyIdRejection ==
    (call.fn \in {"deallocate_ec2_instances", "deallocate_ec2"} /\ call.done /\ AskedIds = <<>>) =>
        /\ ~call.result.ok
        /\ call.result.err.cls = "InvalidArgument"
        /\ sent = <<>>

\* C9: list_s3_buckets, given the provider's bucket list, never fails over a
\* region lookup: it returns one record per bucket in the provider's order,
\* region "unknown" for each bucket whose lookup failed, and for every other
\* bucket the region its own lookup gave ("us-east-1" when the lookup carries
\* none).
BucketRegionIsolation ==
    (Finished("list_s3_buckets") /\ call.answer.ok) =>
        LET buckets == Get(call.answer.val, "Buckets", <<>>)
        IN  /\ call.result.ok
            /\ Len(call.result.val) = Len(buckets)
            /\ \A i \in 1..Len(buckets) :
                 LET rec  == call.result.val[i]
                     look == call.lookup[i]
                 IN  /\ rec.Name = Some(buckets[i]["Name"])
                     /\ rec.CreationDate = Some(buckets[i]["CreationDate"])
                     /\ ~look.ok => rec.Region = "unknown"
                     /\ look.ok =>
                          rec.Region =
                            IF "LocationConstraint" \in DOMAIN look.val
                               /\ look.val["LocationConstraint"].some
                            THEN look.val["LocationConstraint"].v
                            ELSE "us-east-1"

OneLookupFailedOtherKept ==
    /\ Finished("list_s3_buckets")
    /\ call.answer.ok
    /\ BucketCount(call.answer) = 2
    /\ ~call.lookup[1].ok /\ call.lookup[1].err.cls = "BotoCoreError"
    /\ call.lookup[2] = Ok([LocationConstraint |-> Some("eu-west-1")])
    /\ call.result.ok
    /\ call.result.val[1].Region = "unknown"
    /\ call.result.val[2].Region = "eu-west-1"

\* the request allocate_ec2_instance sent
RunRequest == sent[1].params

\* C10: the run_instances request of allocate_ec2_instance always carries
\* the image, the type and MinCount = MaxCount = count; it carries KeyName,
\* SecurityGroupIds, SubnetId or TagSpecifications only when the caller
\* supplied the matching argument, and then with that non-empty value.
AllocationFieldOmission ==
    Finished("allocate_ec2_instance") =>
        /\ Len(sent) = 1
        /\ {"ImageId", "InstanceType", "MinCount", "MaxCount"} \subseteq DOMAIN RunRequest
        /\ DOMAIN RunRequest \subseteq
             {"ImageId", "InstanceType", "MinCount", "MaxCount",
              "KeyName", "SecurityGroupIds", "SubnetId", "TagSpecifications"}
        /\ RunRequest["ImageId"] = call.ami_id
        /\ RunRequest["InstanceType"] = call.instance_type
        /\ RunRequest["MinCount"] = call.count
        /\ RunRequest["MaxCount"] = call.count
        /\ "KeyName" \in DOMAIN RunRequest =>
              (call.key_name.some /\ RunRequest["KeyName"] = call.key_name.v
               /\ RunRequest["KeyName"] # "")
        /\ "SecurityGroupIds" \in DOMAIN RunRequest =>
              (call.security_group_ids.some
               /\ RunRequest["SecurityGroupIds"] = call.security_group_ids.v
               /\ Len(RunRequest["SecurityGroupIds"]) > 0)
        /\ "SubnetId" \in DOMAIN RunRequest =>
              (call.subnet_id.some /\ RunRequest["SubnetId"] = call.subnet_id.v
               /\ RunRequest["SubnetId"] # "")
        /\ "TagSpecifications" \in DOMAIN RunRequest =>
              (call.name_tag.some /\ call.name_tag.v # ""
               /\ RunRequest["TagSpecifications"][1]["Tags"][1]["Value"] = call.name_tag.v)

KeyAndSubnetOmitted ==
    /\ Finished("allocate_ec2_instance")
    /\ call.key_name = NoneVal
    /\ call.subnet_id = Some("")
    /\ call.name_tag = Some("web")
    /\ call.security_group_ids = Some(<<"sg-1">>)
    /\ DOMAIN RunRequest =
         {"ImageId", "InstanceType", "MinCount", "MaxCount", "SecurityGroupIds", "TagSpecifications"}

----------------------------------------------------------------------------
(* Ordering of calls, waits and the return of ensure_stack *)

\* how often a provider operation was called in this invocation
Attempts(op) == Cardinality({i \in 1..Len(calls) : calls[i].op = op})

MutatingOps == {"create_stack", "wait_create", "update_stack", "wait_update"}

\* C11: ensure_stack returns an identifier on the create path only after
\* create_stack and then the "create complete" wait have both succeeded, and on
\* the update path, the "no updates" branch aside, only after update_stack and
\* then the "update complete" wait have both succeeded, the identifier being
\* the one that call answered; when create_stack, update_stack (other than
\* with "no updates") or either wait fails, that call is the last one made,
\* its failure is the outcome and no identifier is returned; and no create,
\* update or wait is ever made a second time, nor the probe repeated outside
\* the "no updates" re-fetch.
WaitBeforeReturn ==
    /\ \A op \in MutatingOps : Attempts(op) <= 1
    /\ Attempts("describe_stacks") <= 2
    /\ Attempts("describe_stacks") = 2 =>
          (Len(calls) = 3 /\ calls[3].op = "describe_stacks" /\ ReadsNoUpdates(calls[2].answer))
    /\ (Issued("wait_create") /\ ~Issued("create_stack")) = FALSE
    /\ (Issued("wait_update") /\ ~Issued("update_stack")) = FALSE
    /\ (pc = "done" /\ result.ok /\ Issued("create_stack")) =>
          /\ Ops = <<"describe_stacks", "create_stack", "wait_create">>
          /\ calls[2].answer.ok
          /\ calls[3].answer.ok
          /\ result.val = calls[2].answer.val["StackId"]
    /\ (pc = "done" /\ result.ok /\ Issued("update_stack")
            /\ ~ReadsNoUpdates(calls[2].answer)) =>
          /\ Ops = <<"describe_stacks", "update_stack", "wait_update">>
          /\ calls[2].answer.ok
          /\ calls[3].answer.ok
          /\ result.val = calls[2].answer.val["StackId"]
    /\ \A i \in 1..Len(calls) :
          (calls[i].op \in MutatingOps /\ ~calls[i].answer.ok
              /\ ~(calls[i].op = "update_stack" /\ ReadsNoUpdates(calls[i].answer))) =>
             /\ i = Len(calls)
             /\ pc = "done"
             /\ result = Raise(calls[i].answer.err)
    /\ (pc # "done" /\ calls # <<>>) => ~result.ok

UpdateWaitedThenReturned ==
    /\ pc = "done"
    /\ Ops = <<"describe_stacks", "update_stack", "wait_update">>
    /\ calls[2].answer.ok
    /\ calls[3].answer.ok
    /\ result = Ok(stacks[cmd.stack_name].id)
    /\ stacks[cmd.stack_name].template = cmd.template_body

====
